---- MODULE Spec2Model ----
(***************************************************************************)
(* Model of frontend/src/app/page.js: the Home component, its two pieces   *)
(* of React state (health, error), the promise chain started by its mount  *)
(* effect, and the three conditional status lines of its render.           *)
(*                                                                         *)
(* JavaScript values are records [kind, num, str]:                         *)
(*   null            kind = "null"                                         *)
(*   false / true    kind = "bool", num = 0 / 1                            *)
(*   a number n      kind = "num",  num = n                                *)
(*   a string s      kind = "str",  str = s                                *)
(*   an array        kind = "arr"                                          *)
(*   an object       kind = "obj";  num = 1 when it has a "status"         *)
(*                   property, whose value is then str                     *)
(***************************************************************************)
EXTENDS Integers, FiniteSets, Sequences, TLC

VARIABLES pc, res, data, err, health, error

vars == <<pc, res, data, err, health, error>>

\* Largest number a numeric response body holds.
MaxNum == 1

----------------------------------------------------------------------------
(* JavaScript values *)

JsNull == [kind |-> "null", num |-> 0, str |-> ""]

JsBool(b) == [kind |-> "bool", num |-> IF b THEN 1 ELSE 0, str |-> ""]

JsNum(n) == [kind |-> "num", num |-> n, str |-> ""]

JsStr(s) == [kind |-> "str", num |-> 0, str |-> s]

JsArr == [kind |-> "arr", num |-> 0, str |-> ""]

JsObj(status) == [kind |-> "obj", num |-> 1, str |-> status]

JsObjNoStatus == [kind |-> "obj", num |-> 0, str |-> ""]

\* ToBoolean, as applied by `x && ...` and `!x` in the JSX.
Truthy(v) ==
    CASE v.kind = "null" -> FALSE
      [] v.kind = "bool" -> v.num = 1
      [] v.kind = "num"  -> v.num # 0
      [] v.kind = "str"  -> v.str # ""
      [] OTHER           -> TRUE

----------------------------------------------------------------------------
(* What the network can answer to fetch('/api/health') *)

\* HTTP status codes of a response; fetch resolves for every one of them.
Statuses == {200, 204, 404, 500, 503}

NumBodies == {ToString(n) : n \in 0..MaxNum}

\* Response body texts that are JSON documents.
JsonBodies ==
    { "null", "false", "true", "\"\"", "\"ok\"", "[]", "{}",
      "{\"status\":\"healthy\"}", "{\"status\":\"unhealthy\"}",
      "{\"detail\":\"Not Found\"}" } \cup NumBodies

\* Response body texts that are not JSON documents.
NonJsonBodies == { "", "<html>502 Bad Gateway</html>", "Internal Server Error" }

Bodies == JsonBodies \cup NonJsonBodies

\* Messages of the TypeError a failed fetch rejects with.
NetworkErrors == { "Failed to fetch", "Load failed" }

NoRes == [status |-> 0, body |-> ""]

NoErr == [name |-> "", message |-> ""]

\* JSON.parse of a body text, as res.json() applies it.
JsonParse(text) ==
    CASE text = "null"   -> [ok |-> TRUE, value |-> JsNull]
      [] text = "false"  -> [ok |-> TRUE, value |-> JsBool(FALSE)]
      [] text = "true"   -> [ok |-> TRUE, value |-> JsBool(TRUE)]
      [] text = "\"\""   -> [ok |-> TRUE, value |-> JsStr("")]
      [] text = "\"ok\"" -> [ok |-> TRUE, value |-> JsStr("ok")]
      [] text = "[]"     -> [ok |-> TRUE, value |-> JsArr]
      [] text = "{}"     -> [ok |-> TRUE, value |-> JsObjNoStatus]
      [] text = "{\"status\":\"healthy\"}"
                         -> [ok |-> TRUE, value |-> JsObj("healthy")]
      [] text = "{\"status\":\"unhealthy\"}"
                         -> [ok |-> TRUE, value |-> JsObj("unhealthy")]
      [] text = "{\"detail\":\"Not Found\"}"
                         -> [ok |-> TRUE, value |-> JsObjNoStatus]
      [] text \in NumBodies
                         -> [ok |-> TRUE,
                             value |-> JsNum(CHOOSE n \in 0..MaxNum : ToString(n) = text)]
      [] OTHER           -> [ok |-> FALSE, value |-> JsNull]

\* Message of the SyntaxError res.json() rejects with.
SyntaxErrorMessage(text) ==
    IF text = "" THEN "Unexpected end of JSON input"
                 ELSE "Unexpected token in JSON"

----------------------------------------------------------------------------
(* Render *)

StatusLines == {"ErrorLine", "SuccessLine", "Connecting"}

\* {error && <p>Error: {error}</p>}
ErrorSlot ==
    IF Truthy(error) THEN {"ErrorLine"}
    ELSE IF error.kind = "num" THEN {"StrayText"} ELSE {}

\* {health && <p>Backend is {health.status}</p>}; a falsy number is
\* rendered as text, the other falsy values render nothing.
HealthSlot ==
    IF Truthy(health) THEN {"SuccessLine"}
    ELSE IF health.kind = "num" THEN {"StrayText"} ELSE {}

\* {!health && !error && <p>Connecting...</p>}
ConnectingSlot ==
    IF ~Truthy(health) /\ ~Truthy(error) THEN {"Connecting"} ELSE {}

Render == ErrorSlot \cup HealthSlot \cup ConnectingSlot

\* health.status as interpolated in the success line ("" for undefined).
StatusText == IF health.kind = "obj" /\ health.num = 1 THEN health.str ELSE ""

----------------------------------------------------------------------------
(* State machine *)

\* First render: both useState(null), the mount effect not yet run.
Init ==
    /\ pc = "mounted"
    /\ res = NoRes
    /\ data = JsNull
    /\ err = NoErr
    /\ health = JsNull
    /\ error = JsNull

\* useEffect(..., []) runs once after the first render and issues the fetch.
Effect ==
    /\ pc = "mounted"
    /\ pc' = "fetching"
    /\ UNCHANGED <<res, data, err, health, error>>

\* fetch resolves with a Response, whatever its HTTP status.
FetchResolve ==
    /\ pc = "fetching"
    /\ \E s \in Statuses, b \in Bodies : res' = [status |-> s, body |-> b]
    /\ pc' = "response"
    /\ UNCHANGED <<data, err, health, error>>

\* fetch rejects (network failure): the chain skips both then-handlers.
FetchReject ==
    /\ pc = "fetching"
    /\ \E m \in NetworkErrors : err' = [name |-> "TypeError", message |-> m]
    /\ pc' = "rejected"
    /\ UNCHANGED <<res, data, health, error>>

\* .then(res => res.json()): the body is read and parsed.
ResJson ==
    /\ pc = "response"
    /\ LET r == JsonParse(res.body) IN
         IF r.ok
         THEN /\ data' = r.value
              /\ pc' = "parsed"
              /\ err' = err
         ELSE /\ err' = [name |-> "SyntaxError",
                         message |-> SyntaxErrorMessage(res.body)]
              /\ pc' = "rejected"
              /\ data' = data
    /\ UNCHANGED <<res, health, error>>

\* res.json() rejects because the body stream breaks while being read.
ResJsonReadFail ==
    /\ pc = "response"
    /\ \E m \in NetworkErrors : err' = [name |-> "TypeError", message |-> m]
    /\ pc' = "rejected"
    /\ UNCHANGED <<res, data, health, error>>

\* A success handler that also reports through setError (the response's
\* status text), as a handler written `setHealth(data); setError(...)` would.
ThenSetHealthAndError ==
    /\ pc = "parsed"
    /\ health' = data
    /\ error' = JsStr("OK")
    /\ pc' = "done"
    /\ UNCHANGED <<res, data, err>>

\* .then(data => setHealth(data))
ThenSetHealth ==
    /\ pc = "parsed"
    /\ health' = data
    /\ pc' = "done"
    /\ UNCHANGED <<res, data, err, error>>

\* .catch(err => setError(err.message))
CatchSetError ==
    /\ pc = "rejected"
    /\ error' = JsStr(err.message)
    /\ pc' = "done"
    /\ UNCHANGED <<res, data, err, health>>

Next ==
    \/ Effect
    \/ FetchResolve
    \/ FetchReject
    \/ ResJson
    \/ ResJsonReadFail
    \/ ThenSetHealth
    \/ CatchSetError

Spec == Init /\ [][Next]_vars

----------------------------------------------------------------------------
(* Properties *)

\* C8: for one mount of Home, at most one of health and error is set in
\* every reachable state, so exactly one of the three status lines is
\* rendered, and the error line and the success line never appear together.
AtMostOneOfHealthErrorSet ==
    /\ ~(health # JsNull /\ error # JsNull)
    /\ Cardinality(Render \cap StatusLines) = 1
    /\ ~({"ErrorLine", "SuccessLine"} \subseteq Render)

\* C8 witness: the chain has run to its end and exactly one line other
\* than 'Connecting...' is on the page.
ChainEndedWithOneLine ==
    /\ pc = "done"
    /\ health # JsNull
    /\ Render = {"SuccessLine"}

\* C9: once the promise chain started by the fetch has run to its end
\* (resolved or rejected), Home no longer renders 'Connecting...'.
SettledLeavesConnecting ==
    pc = "done" => "Connecting" \notin Render

\* C10: the success line is rendered only after a 2xx response whose body
\* parsed as JSON; a non-2xx response never leads to the success line.
SuccessLineOnly2xxJson ==
    "SuccessLine" \in Render =>
        /\ res.status \in 200..299
        /\ JsonParse(res.body).ok

====
